---- MODULE Spec2Model ----
(***************************************************************************)
(* Polygon panorama discovery of the MapView component: grid generation,   *)
(* existence probes with the probe cache and the SDK loader, the key and   *)
(* proximity deduplication, and the two searches findPanoramas (draw end)  *)
(* and loadPanoramasInView (button).                                       *)
(*                                                                         *)
(* Spec is the component with its searches.  ProbeSpec calls               *)
(* checkPanoramaExists on its own and GridSpec calls                       *)
(* generateComprehensivePointsInPolygon on its own, with arguments the     *)
(* searches never pass.  ImageSpec is the image cache of                   *)
(* PanoramaApiService (utils/panoramaApi.ts), DownloadSpec its             *)
(* batchDownloadPanoramas.  AiSpec is the background analysis              *)
(* runBatchAiAnalysis of MapView, HandlerSpec the two serverless handlers  *)
(* (api/analyze-property, api/panorama-search).                            *)
(*                                                                         *)
(* Coordinates are integers in units of 1e-7 degree, so that toFixed(6)    *)
(* is a real rounding (to a multiple of 10 units) and the proximity        *)
(* threshold 1e-8 deg^2 is 1000000 units^2.  The polygons lie next to the  *)
(* equator, where cos(centerLat) = 1 to ten digits and the longitude step  *)
(* equals the latitude step.                                               *)
(***************************************************************************)
EXTENDS Integers, Sequences, FiniteSets, TLC

(***************************************************************************)
(* Bounds of the model.                                                    *)
(***************************************************************************)
\* total number of searches started in one behaviour
MaxSearches == 3

(***************************************************************************)
(* Program constants.                                                      *)
(***************************************************************************)
\* spacingMeters of both searches and metersPerDegLat: a step of
\* 15 m / 111000 m per degree is 150000 / 111 units of 1e-7 degree
SpacingMeters == 15
MetersPerDegLat == 111000
\* search radius of a polygon search and of a viewport search
PolygonRadius == 25
ViewportRadius == 50
\* grid caps of findPanoramas and of loadPanoramasInView
FindMaxPoints == 4000
LoadMaxPoints == 3000
\* (dLon^2 + dLat^2) < 0.00000001 deg^2, in units^2
ProximityThreshold == 1000000
\* valid ranges of a returned coordinate
MaxLon == 1800000000
MaxLat == 900000000

Abs(x) == IF x < 0 THEN -x ELSE x

(***************************************************************************)
(* Number.prototype.toFixed(6): the decimal string with 6 fraction digits. *)
(* The string is the sign (a negative number keeps its "-", also when it   *)
(* rounds to zero) and the magnitude rounded to a multiple of 1e-6; a tie  *)
(* of the decimal value is rounded up.                                     *)
(***************************************************************************)
toFixed6(x) == <<x < 0, (Abs(x) + 5) \div 10>>

\* `${lat.toFixed(6)}_${lon.toFixed(6)}` of a point <<lon, lat>>
DedupKey(p) == <<toFixed6(p[2]), toFixed6(p[1])>>

\* `${lon.toFixed(6)},${lat.toFixed(6)},${radius}`
CacheKey(lon, lat, radius) == <<toFixed6(lon), toFixed6(lat), radius>>

(***************************************************************************)
(* pointInPolygon: ray casting over the edges (i, j = i - 1 wrapping).     *)
(* The quotient of the source is compared exactly, by cross-multiplying    *)
(* with the sign of (yj - yi), which is not zero when the edge straddles   *)
(* the ray.                                                                *)
(***************************************************************************)
EdgeCrosses(x, y, pi, pj) ==
    LET xi == pi[1]
        yi == pi[2]
        xj == pj[1]
        yj == pj[2]
        d  == yj - yi
    IN  /\ (yi > y) # (yj > y)
        /\ IF d > 0 THEN (x - xi) * d < (xj - xi) * (y - yi)
                    ELSE (x - xi) * d > (xj - xi) * (y - yi)

RECURSIVE PipLoop(_, _, _, _, _)
PipLoop(x, y, polygon, i, inside) ==
    IF i > Len(polygon) THEN inside
    ELSE LET j == IF i = 1 THEN Len(polygon) ELSE i - 1
         IN  PipLoop(x, y, polygon, i + 1,
                     IF EdgeCrosses(x, y, polygon[i], polygon[j])
                     THEN ~inside ELSE inside)

pointInPolygonAlways(point, polygon) == TRUE

pointInPolygon(point, polygon) == PipLoop(point[1], point[2], polygon, 1, FALSE)

(***************************************************************************)
(* poly.getExtent(): west, south, east, north of the ring.                 *)
(***************************************************************************)
RECURSIVE MinOf(_, _, _)
MinOf(polygon, c, i) ==
    IF i = Len(polygon) THEN polygon[i][c]
    ELSE LET m == MinOf(polygon, c, i + 1)
         IN  IF polygon[i][c] < m THEN polygon[i][c] ELSE m

RECURSIVE MaxOf(_, _, _)
MaxOf(polygon, c, i) ==
    IF i = Len(polygon) THEN polygon[i][c]
    ELSE LET m == MaxOf(polygon, c, i + 1)
         IN  IF polygon[i][c] > m THEN polygon[i][c] ELSE m

getExtent(polygon) ==
    [w |-> MinOf(polygon, 1, 1), s |-> MinOf(polygon, 2, 1),
     e |-> MaxOf(polygon, 1, 1), n |-> MaxOf(polygon, 2, 1)]

(***************************************************************************)
(* generateComprehensivePointsInPolygon: rows from south + step/2 while    *)
(* lat <= north, columns from west + step/2 while lon <= east; a point     *)
(* inside the polygon is pushed, and the function returns as soon as the   *)
(* grid holds maxPoints points.  The k-th coordinate of a row or column is *)
(* base + (2k+1) * step / 2, rounded down to a whole unit.                 *)
(***************************************************************************)
GridCoord(base, k, spacingMeters) ==
    base + ((2 * k + 1) * spacingMeters * 10000) \div (2 * (MetersPerDegLat \div 1000))

RECURSIVE GridLoop(_, _, _, _, _, _, _)
GridLoop(polygon, ext, spacingMeters, maxPoints, row, col, grid) ==
    LET lat == GridCoord(ext.s, row, spacingMeters)
        lon == GridCoord(ext.w, col, spacingMeters)
    IN  IF lat > ext.n THEN grid
        ELSE IF lon > ext.e
             THEN GridLoop(polygon, ext, spacingMeters, maxPoints, row + 1, 0, grid)
        ELSE IF pointInPolygon(<<lon, lat>>, polygon)
             THEN IF Len(grid) + 1 >= maxPoints
                  THEN Append(grid, <<lon, lat>>)
                  ELSE GridLoop(polygon, ext, spacingMeters, maxPoints, row, col + 1,
                                Append(grid, <<lon, lat>>))
        ELSE GridLoop(polygon, ext, spacingMeters, maxPoints, row, col + 1, grid)

generateComprehensivePointsInPolygon(polygon, ext, spacingMeters, maxPoints) ==
    GridLoop(polygon, ext, spacingMeters, maxPoints, 0, 0, <<>>)

(***************************************************************************)
(* Values of a probe: null (the function returned null), or the output of  *)
(* Panorama.panoramaExists: exists false, or exists true with info.        *)
(***************************************************************************)
Null == [tag |-> "null", lon |-> 0, lat |-> 0]
NotExists == [tag |-> "absent", lon |-> 0, lat |-> 0]
Found(p) == [tag |-> "pano", lon |-> p[1], lat |-> p[2]]
\* exists true without info
NoInfo == [tag |-> "noinfo", lon |-> 0, lat |-> 0]

(***************************************************************************)
(* Inputs.  Polygons are rings as polygonToCoords returns them (the        *)
(* closing vertex repeats the first).  Degenerate has two distinct         *)
(* vertices; Rect gives a grid of two points, (675,675) and (2027,675).    *)
(***************************************************************************)
Degenerate == << <<0, 0>>, <<2800, 1400>>, <<0, 0>> >>
Rect == << <<0, 0>>, <<2800, 0>>, <<2800, 1400>>, <<0, 1400>>, <<0, 0>> >>
Polygons == {Degenerate, Rect}
\* a ring with a grid of three points, (675,675), (2027,675) and (3378,675)
Strip == << <<0, 0>>, <<4100, 0>>, <<4100, 1400>>, <<0, 1400>>, <<0, 0>> >>
NoPolygon == << >>

\* the extent of the map view when no polygon is drawn
Viewports == {[w |-> 0, s |-> 0, e |-> 2800, n |-> 1400]}

\* Panoramas the service may return: PA and PB share the 6-decimal key,
\* PC is 500 units from PA, PD lies outside Rect, far from the others.
PA == <<700, 700>>
PB == <<703, 702>>
PC == <<1200, 700>>
PD == <<2900, 700>>
Panos == {PA, PB, PC, PD}
\* a panorama of Strip far from PA and from PC
PE == <<2500, 700>>
\* info of a malformed answer: lat 90.00001
PX == <<700, 900000100>>
Answers == {NotExists} \cup {Found(p) : p \in Panos}

Slots == {1, 2}

\* A behaviour is one of: one search at a time over a drawn polygon and
\* every answer; two searches over drawn polygons whose probes may overlap
\* and a service that knows one panorama; one search at a time over the
\* map view with no polygon drawn; one search at a time over a drawn
\* polygon and a service that gives malformed answers; one search at a time
\* over a drawn polygon and a service that still answers a call after the
\* 300 ms timer of the probe has fired; one search at a time over a polygon
\* of three grid points and a service that knows three panoramas of it.
\*   slots:    the invocations that may await their probes at a time
\*   service:  the answers Panorama.panoramaExists may give
\*   polygons: the polygons the user may draw
\*   views:    the map views in which the button is pressed with no polygon
\*   late:     the service answers the calls whose timer fired first
Scenarios ==
    {[slots |-> {1}, service |-> Answers, polygons |-> Polygons, views |-> {},
      late |-> FALSE],
     [slots |-> Slots, service |-> {NotExists, Found(PA)}, polygons |-> Polygons,
      views |-> {}, late |-> FALSE],
     [slots |-> {1}, service |-> {NotExists, Found(PA), Found(PB)}, polygons |-> {},
      views |-> Viewports, late |-> FALSE],
     [slots |-> {1}, service |-> {Found(PA), Found(PX), NoInfo}, polygons |-> {Rect},
      views |-> {}, late |-> FALSE],
     [slots |-> {1}, service |-> {NotExists, Found(PA)}, polygons |-> {Rect},
      views |-> {}, late |-> TRUE],
     [slots |-> {1}, service |-> {Found(PA), Found(PC), Found(PE)}, polygons |-> {Strip},
      views |-> {}, late |-> FALSE]}

VARIABLES
    apiKey,            \* process.env.REACT_APP_MAPY_API_KEY is set
    windowPanorama,    \* window.Panorama: "absent", "ready", "noApi"
    sdkPromise,        \* panoramaSdkPromiseRef: "none", "pending", "resolved", "rejected"
    panoramaCache,     \* panoramaCache.current: cache key -> value
    seen,              \* the set seen of dedup keys
    drawnPolygon,      \* the polygon feature of vectorSourceRef, or NoPolygon
    searches,          \* the running invocations of findPanoramas / loadPanoramasInView
    layer,             \* coordinates of the features of the panorama layer source
    panoramaLocations, \* state panoramaLocations
    analysisResults,   \* state analysisResults
    isAnalyzing,       \* state isAnalyzing
    error,             \* state error
    findLog,           \* how the last findPanoramas ended, and its counts
    started,           \* number of searches started
    scenario,          \* what the user and the service may do in this behaviour
    firstResult,       \* cache key -> value the first settled probe of the key returned
    cacheHits,         \* what the probes of the last started search took from the cache
    lastBatch,         \* what the search that set analysisResults had to process
    abandoned,         \* cache keys of the calls that lost the race and are not answered yet
    lateAnswered,      \* cache keys of the calls that were answered after they lost the race
    gridArgs,          \* arguments of a call of generateComprehensivePointsInPolygon
    gridOut,           \* whether the call has returned, and the grid it returned
    imageCache,        \* PanoramaApiService.cache: image key -> entry
    fetches,           \* the calls of fetchPanoramaImage awaiting fetch or blob
    removals,          \* image key -> how often its entry was cleared or evicted
    now,               \* Date.now(), in ticks
    aiResults,         \* analysisResults with the status and the analysis of each record
    aiBatches,         \* the calls of runBatchAiAnalysis, in the order of their searches
    aiEvent,           \* the last step taken by a search or by a batch
    download,          \* a call of batchDownloadPanoramas
    http               \* a request to an api handler and its response

searchVars == <<apiKey, windowPanorama, sdkPromise, panoramaCache, seen, drawnPolygon,
                searches, layer, panoramaLocations, analysisResults, isAnalyzing, error,
                findLog, started, scenario, firstResult, cacheHits, lastBatch>>

gridVars == <<gridArgs, gridOut>>

\* the state outside the searches of MapView
raceVars == <<abandoned, lateAnswered>>

imageVars == <<imageCache, fetches, removals, now>>

aiVars == <<aiResults, aiBatches, aiEvent>>

\* the state outside MapView's searches, the grid generator and the image cache
rest == <<aiVars, download, http>>

aside == <<gridVars, raceVars, imageVars, rest>>

vars == <<searchVars, aside>>

Idle == [kind |-> "idle", id |-> 0, polygon |-> NoPolygon, radius |-> 0, probes |-> << >>]

NoBatch ==
    [kind |-> "none", id |-> 0, polygon |-> NoPolygon, vals |-> << >>, seenBefore |-> {},
     published |-> << >>]

NoLog ==
    [outcome |-> "none", polygon |-> NoPolygon, tested |-> 0, found |-> 0, unique |-> 0,
     records |-> << >>]

NoCall == [polygon |-> NoPolygon, ext |-> [w |-> 0, s |-> 0, e |-> 0, n |-> 0],
           spacingMeters |-> 0, maxPoints |-> 0]

NotRun == [done |-> FALSE, grid |-> << >>]

NoScenario == [slots |-> {}, service |-> {}, polygons |-> {}, views |-> {}, late |-> FALSE]

GridIdle == gridArgs = NoCall /\ gridOut = NotRun

\* no PanoramaApiService constructed
ImageIdle == imageCache = << >> /\ fetches = {} /\ removals = << >> /\ now = 0

NoAnalysis == [kind |-> "none", of |-> <<0, 0>>, batch |-> 0]

NoEvent == [kind |-> "none", search |-> 0, id |-> 0]

NoDownload == [n |-> 0, onProgress |-> FALSE, i |-> 0, phase |-> "none", success |-> 0,
               failed |-> 0, actual |-> << >>, progress |-> << >>]

NoRequest == [handler |-> "none", method |-> "none", body |-> "none", key |-> FALSE,
              phase |-> "none", status |-> 0, cors |-> FALSE, upstream |-> 0]

AiIdle == aiResults = << >> /\ aiBatches = << >> /\ aiEvent = NoEvent

RestIdle == AiIdle /\ download = NoDownload /\ http = NoRequest

SearchInit(keys, scens) ==
    /\ apiKey \in keys
    /\ windowPanorama = "absent"
    /\ sdkPromise = "none"
    /\ panoramaCache = << >>
    /\ seen = {}
    /\ drawnPolygon = NoPolygon
    /\ searches = [s \in Slots |-> Idle]
    /\ layer = << >>
    /\ panoramaLocations = << >>
    /\ analysisResults = << >>
    /\ isAnalyzing = FALSE
    /\ error = FALSE
    /\ findLog = NoLog
    /\ started = 0
    /\ scenario \in scens
    /\ firstResult = << >>
    /\ cacheHits = {}
    /\ lastBatch = NoBatch
    /\ abandoned = {}
    /\ lateAnswered = {}

Init == SearchInit(BOOLEAN, Scenarios) /\ GridIdle /\ ImageIdle /\ RestIdle

(***************************************************************************)
(* checkPanoramaExists, synchronous part and the microtasks that follow    *)
(* it without waiting for anything: the argument check, the cache lookup,  *)
(* ensurePanoramaSDK and, when the SDK is there, the call of               *)
(* Panorama.panoramaExists.  A probe is "done" (its promise is settled),   *)
(* "sdk" (awaiting ensurePanoramaSDK) or "flying" (awaiting the race of    *)
(* the call and the 300 ms timer).                                         *)
(***************************************************************************)
CacheHas(key, cache) == key \in DOMAIN cache

checkPanoramaExists(pt, key, radius) ==
    IF ~key
    THEN [pt |-> pt, st |-> "done", val |-> Null, hit |-> FALSE, write |-> FALSE]
    ELSE IF CacheHas(CacheKey(pt[1], pt[2], radius), panoramaCache)
    THEN [pt |-> pt, st |-> "done",
          val |-> panoramaCache[CacheKey(pt[1], pt[2], radius)],
          hit |-> TRUE, write |-> FALSE]
    ELSE IF windowPanorama = "ready"
    THEN [pt |-> pt, st |-> "flying", val |-> Null, hit |-> FALSE, write |-> FALSE]
    ELSE IF windowPanorama = "noApi"
    THEN [pt |-> pt, st |-> "done", val |-> Null, hit |-> FALSE, write |-> FALSE]
    ELSE IF sdkPromise = "rejected"
    THEN [pt |-> pt, st |-> "done", val |-> Null, hit |-> FALSE, write |-> TRUE]
    ELSE [pt |-> pt, st |-> "sdk", val |-> Null, hit |-> FALSE, write |-> FALSE]

\* ensurePanoramaSDK: the first caller without window.Panorama adds the script
ensurePanoramaSDK(probes) ==
    IF /\ windowPanorama = "absent"
       /\ sdkPromise = "none"
       /\ \E i \in DOMAIN probes : probes[i].st = "sdk"
    THEN "pending" ELSE sdkPromise

Count(probes, state) == Cardinality({i \in DOMAIN probes : probes[i].st = state})

AnyDone(probes) == probes = << >> \/ \E i \in DOMAIN probes : probes[i].st = "done"

AllDone(probes) == \A i \in DOMAIN probes : probes[i].st = "done"

\* the cache after the probes of one search wrote their failure entries
WriteFailures(cache, probes, radius) ==
    LET ks == {CacheKey(probes[i].pt[1], probes[i].pt[2], radius) :
                  i \in {j \in DOMAIN probes : probes[j].write}}
    IN  [k \in DOMAIN cache \cup ks |-> IF k \in ks THEN Null ELSE cache[k]]

\* the first value written for each key
RememberFirst(first, cache) ==
    [k \in DOMAIN cache |-> IF k \in DOMAIN first THEN first[k] ELSE cache[k]]

(***************************************************************************)
(* Deduplication and the loops over the settled results.                   *)
(***************************************************************************)
SeenHasNever(key, s) == FALSE

SeenHas(key, s) == key \in s

\* foundPanoramas.some(existing => dLon*dLon + dLat*dLat < 0.00000001)
isTooClose(p, found) ==
    \E i \in DOMAIN found :
        (p[1] - found[i][1]) * (p[1] - found[i][1])
          + (p[2] - found[i][2]) * (p[2] - found[i][2]) < ProximityThreshold

\* lon < -180 || lon > 180 || lat < -90 || lat > 90
OutOfRange(v) == v.lon < -MaxLon \/ v.lon > MaxLon \/ v.lat < -MaxLat \/ v.lat > MaxLat

NewAcc(s) == [seen |-> s, foundCount |-> 0, found |-> << >>, results |-> << >>]

Accept(acc, p) ==
    [acc EXCEPT !.found = Append(@, p),
                !.results = Append(@, [id |-> acc.foundCount, coordinates |-> p])]

\* one iteration of the loop of findPanoramas over allResults
FindStep(acc, v, polygon) ==
    IF v.tag # "pano" THEN acc
    ELSE IF OutOfRange(v) THEN acc
    ELSE IF ~pointInPolygon(<<v.lon, v.lat>>, polygon) THEN acc
    ELSE IF SeenHas(DedupKey(<<v.lon, v.lat>>), acc.seen) THEN acc
    ELSE LET acc1 == [acc EXCEPT !.seen = @ \cup {DedupKey(<<v.lon, v.lat>>)},
                                 !.foundCount = @ + 1]
         IN  IF isTooClose(<<v.lon, v.lat>>, acc1.found) THEN acc1
             ELSE Accept(acc1, <<v.lon, v.lat>>)

RECURSIVE ProcessFind(_, _, _, _)
ProcessFind(probes, polygon, i, acc) ==
    IF i > Len(probes) THEN acc
    ELSE ProcessFind(probes, polygon, i + 1, FindStep(acc, probes[i].val, polygon))

\* one iteration of results.forEach of loadPanoramasInView
LoadStep(acc, v) ==
    IF v.tag # "pano" THEN acc
    ELSE IF SeenHas(DedupKey(<<v.lon, v.lat>>), acc.seen) THEN acc
    ELSE Accept([acc EXCEPT !.seen = @ \cup {DedupKey(<<v.lon, v.lat>>)},
                            !.foundCount = @ + 1],
                <<v.lon, v.lat>>)

RECURSIVE ProcessLoad(_, _, _)
ProcessLoad(probes, i, acc) ==
    IF i > Len(probes) THEN acc
    ELSE ProcessLoad(probes, i + 1, LoadStep(acc, probes[i].val))

Vals(probes) == [i \in DOMAIN probes |-> probes[i].val]

Batch(w, srch, results) ==
    [kind |-> srch.kind, id |-> srch.id, polygon |-> srch.polygon,
     vals |-> Vals(srch.probes), seenBefore |-> w.seen, published |-> results]

Coordinates(results) == [i \in DOMAIN results |-> results[i].coordinates]

(***************************************************************************)
(* The part of a search after the await of Promise.allSettled.  It runs    *)
(* in the microtask that follows the settling of the last probe, so it is  *)
(* part of the step that settles the last probe.  w is the component       *)
(* state the continuation finds.                                           *)
(***************************************************************************)
World ==
    [seen |-> seen, layer |-> layer, locs |-> panoramaLocations,
     results |-> analysisResults, analyzing |-> isAnalyzing, error |-> error,
     log |-> findLog, batch |-> lastBatch]

\* Promise.allSettled fulfils once every probe has settled, whatever the
\* probes settled with
AwaitBatchFailFast(probes) ==
    IF \E i \in DOMAIN probes : probes[i].val = Null THEN "rejected" ELSE "fulfilled"

AwaitBatch(probes) == "fulfilled"

FinishFind(w, srch) ==
    LET acc == ProcessFind(srch.probes, srch.polygon, 1, NewAcc(w.seen))
    IN  IF AwaitBatch(srch.probes) = "rejected"
        THEN \* catch: setError('Failed to search for panoramas'); finally
             [w EXCEPT !.error = TRUE,
                       !.analyzing = FALSE,
                       !.log = [outcome |-> "failed", polygon |-> srch.polygon,
                                tested |-> Len(srch.probes), found |-> 0,
                                unique |-> 0, records |-> << >>]]
        ELSE
        [w EXCEPT !.seen = acc.seen,
                  !.layer = @ \o acc.found,
                  !.locs = acc.found,
                  !.results = acc.results,
                  !.batch = Batch(w, srch, acc.results),
                  !.analyzing = FALSE,
                  !.log = [outcome |-> "completed", polygon |-> srch.polygon,
                           tested |-> Len(srch.probes), found |-> acc.foundCount,
                           unique |-> Len(acc.found), records |-> acc.results]]

FinishLoad(w, srch) ==
    LET acc == ProcessLoad(srch.probes, 1, NewAcc(w.seen))
    IN  [w EXCEPT !.seen = acc.seen,
                  !.layer = @ \o acc.found,
                  !.locs = acc.found,
                  !.results = acc.results,
                  !.batch = Batch(w, srch, acc.results)]

\* a probe called on its own publishes nothing
Finish(w, srch) ==
    IF srch.kind = "find" THEN FinishFind(w, srch)
    ELSE IF srch.kind = "load" THEN FinishLoad(w, srch)
    ELSE w

Settled(ss) == {s \in Slots : ss[s].kind # "idle" /\ AllDone(ss[s].probes)}

\* the continuations run in the order in which the searches were started
RECURSIVE FinishAll(_, _, _)
FinishAll(w, S, ss) ==
    IF S = {} THEN w
    ELSE LET s == CHOOSE x \in S : \A y \in S : ss[x].id <= ss[y].id
         IN  FinishAll(Finish(w, ss[s]), S \ {s}, ss)

Publish(w0, ss) ==
    LET w == FinishAll(w0, Settled(ss), ss)
    IN  /\ searches' = [s \in Slots |-> IF s \in Settled(ss) THEN Idle ELSE ss[s]]
        /\ seen' = w.seen
        /\ layer' = w.layer
        /\ panoramaLocations' = w.locs
        /\ analysisResults' = w.results
        /\ isAnalyzing' = w.analyzing
        /\ error' = w.error
        /\ findLog' = w.log
        /\ lastBatch' = w.batch

(***************************************************************************)
(* Actions.                                                                *)
(***************************************************************************)
FreeSlot == CHOOSE s \in scenario.slots : searches[s].kind = "idle" /\
                \A t \in scenario.slots : searches[t].kind = "idle" => s <= t

CanStart == started < MaxSearches /\ \E s \in scenario.slots : searches[s].kind = "idle"

HasApiKeyAlways(key) == TRUE

HasApiKey(key) == key

\* the probes of a new search and everything they change at once
Launch(w0, kind, polygon, radius, grid) ==
    LET probes == [i \in DOMAIN grid |-> checkPanoramaExists(grid[i], apiKey, radius)]
        srch   == [kind |-> kind, id |-> started + 1, polygon |-> polygon,
                   radius |-> radius, probes |-> probes]
        cache2 == WriteFailures(panoramaCache, probes, radius)
    IN  /\ sdkPromise' = ensurePanoramaSDK(probes)
        /\ panoramaCache' = cache2
        /\ firstResult' = RememberFirst(firstResult, cache2)
        /\ cacheHits' = {[kind |-> kind,
                            key |-> CacheKey(probes[i].pt[1], probes[i].pt[2], radius),
                            val |-> probes[i].val] :
                               i \in {j \in DOMAIN probes : probes[j].hit}}
        /\ Publish(w0, [searches EXCEPT ![FreeSlot] = srch])

\* the toggle button of the drawing mode: switching it on removes the
\* polygon, the features of the layer and the published locations
\* (switching it off changes nothing of this state)
ToggleDrawing ==
    /\ drawnPolygon' = NoPolygon
    /\ layer' = << >>
    /\ panoramaLocations' = << >>
    /\ UNCHANGED <<apiKey, windowPanorama, sdkPromise, panoramaCache, seen, searches,
                   analysisResults, isAnalyzing, error, findLog, started, scenario,
                   firstResult, cacheHits, lastBatch, aside>>

\* drawend: the polygon is kept and findPanoramas(polygon) runs up to its
\* await, with the source of the panorama layer at hand (without it the
\* function returns at once and changes nothing).  A polygon is drawn in
\* drawing mode, which was switched on when the last polygon was removed.
findPanoramas(poly) ==
    /\ CanStart
    /\ drawnPolygon = NoPolygon
    /\ drawnPolygon' = poly
    /\ started' = started + 1
    /\ LET w0 == [World EXCEPT !.layer = << >>, !.seen = {}, !.analyzing = TRUE,
                               !.locs = << >>]
       IN  IF ~HasApiKey(apiKey)
           THEN /\ seen' = {}
                /\ layer' = << >>
                /\ panoramaLocations' = << >>
                /\ isAnalyzing' = FALSE
                /\ findLog' = [outcome |-> "noKey", polygon |-> poly, tested |-> 0,
                               found |-> 0, unique |-> 0, records |-> << >>]
                /\ cacheHits' = {}
                /\ UNCHANGED <<sdkPromise, panoramaCache, searches, analysisResults,
                               error, firstResult, lastBatch>>
           ELSE Launch(w0, "find", poly, PolygonRadius,
                       generateComprehensivePointsInPolygon(
                           poly, getExtent(poly), SpacingMeters, FindMaxPoints))
    /\ UNCHANGED <<apiKey, windowPanorama, scenario, aside>>

\* the grid of the viewport branch: the centres of gridSize x gridSize cells
ViewportGrid(ext, gridSize) ==
    [k \in 1..(gridSize * gridSize) |->
        <<ext.w + ((2 * ((k - 1) \div gridSize) + 1) * (ext.e - ext.w)) \div (2 * gridSize),
          ext.s + ((2 * ((k - 1) % gridSize) + 1) * (ext.n - ext.s)) \div (2 * gridSize)>>]

\* size of the viewport grid (gridSize is 10 in the source: 100 probes)
ViewGridSize == 1

loadPanoramasInView(view) ==
    /\ CanStart
    /\ started' = started + 1
    /\ LET w0 == [World EXCEPT !.layer = << >>, !.seen = {}, !.locs = << >>,
                               !.results = << >>, !.batch = NoBatch]
           grid == IF drawnPolygon # NoPolygon
                   THEN generateComprehensivePointsInPolygon(
                            drawnPolygon, getExtent(drawnPolygon), SpacingMeters,
                            LoadMaxPoints)
                   ELSE ViewportGrid(view, ViewGridSize)
           radius == IF drawnPolygon # NoPolygon THEN PolygonRadius ELSE ViewportRadius
       IN  IF ~HasApiKey(apiKey) \/ Len(grid) = 0
           THEN /\ seen' = {}
                /\ layer' = << >>
                /\ panoramaLocations' = << >>
                /\ analysisResults' = << >>
                /\ lastBatch' = NoBatch
                /\ cacheHits' = {}
                /\ UNCHANGED <<sdkPromise, panoramaCache, searches, isAnalyzing,
                               error, findLog, firstResult>>
           ELSE Launch(w0, "load", drawnPolygon, radius, grid)
    /\ UNCHANGED <<apiKey, windowPanorama, drawnPolygon, scenario, aside>>

\* the probes that were awaiting ensurePanoramaSDK go on, in one run of
\* the microtask queue
AfterSdk(srch, to, wr) ==
    [srch EXCEPT !.probes = [i \in DOMAIN @ |->
        IF @[i].st = "sdk" THEN [@[i] EXCEPT !.st = to, !.write = wr] ELSE @[i]]]

Waiting == {s \in Slots : Count(searches[s].probes, "sdk") > 0}

RECURSIVE WriteAll(_, _, _)
WriteAll(cache, S, ss) ==
    IF S = {} THEN cache
    ELSE LET s == CHOOSE x \in S : TRUE
         IN  WriteAll(WriteFailures(cache, ss[s].probes, ss[s].radius), S \ {s}, ss)

\* the script fires load: window.Panorama is there, with or without panoramaExists
ScriptLoad(hasApi) ==
    /\ sdkPromise = "pending"
    /\ sdkPromise' = "resolved"
    /\ windowPanorama' = IF hasApi THEN "ready" ELSE "noApi"
    /\ LET ss == [s \in Slots |->
                    AfterSdk(searches[s], IF hasApi THEN "flying" ELSE "done", FALSE)]
       IN  Publish(World, ss)
    /\ UNCHANGED <<apiKey, panoramaCache, drawnPolygon, started, scenario,
                   firstResult, cacheHits, aside>>

\* the script fires error: every awaiting probe catches and caches null
ScriptError ==
    /\ sdkPromise = "pending"
    /\ sdkPromise' = "rejected"
    /\ LET ss == [s \in Slots |-> AfterSdk(searches[s], "done", TRUE)]
           cache2 == WriteAll(panoramaCache, Slots, ss)
       IN  /\ panoramaCache' = cache2
           /\ firstResult' = RememberFirst(firstResult, cache2)
           /\ Publish(World, ss)
    /\ UNCHANGED <<apiKey, windowPanorama, drawnPolygon, started, scenario,
                   cacheHits, aside>>

\* panoramaCache.current[cacheKey] = output, and = null in the catch
CacheWriteSuccessOnly(cache, key, v) ==
    IF v = Null THEN cache
    ELSE [k \in DOMAIN cache \cup {key} |-> IF k = key THEN v ELSE cache[k]]

CacheWrite(cache, key, v) ==
    [k \in DOMAIN cache \cup {key} |-> IF k = key THEN v ELSE cache[k]]

\* a flying probe settles with value v, which it writes to the cache
SettleProbe(s, i, v) ==
    LET srch == searches[s]
        key  == CacheKey(srch.probes[i].pt[1], srch.probes[i].pt[2], srch.radius)
        cache2 == CacheWrite(panoramaCache, key, v)
    IN  /\ srch.kind # "idle"
        /\ i \in DOMAIN srch.probes
        /\ srch.probes[i].st = "flying"
        /\ panoramaCache' = cache2
        /\ firstResult' = RememberFirst(firstResult, cache2)
        /\ Publish(World, [searches EXCEPT ![s].probes[i].st = "done",
                                           ![s].probes[i].val = v])
        /\ UNCHANGED <<apiKey, windowPanorama, sdkPromise, drawnPolygon, started,
                       scenario, cacheHits, gridVars, imageVars, rest>>

\* Panorama.panoramaExists answers before the timer
ServiceAnswer(s, i, v) == SettleProbe(s, i, v) /\ UNCHANGED raceVars

\* the 300 ms timer wins the race; the call stays with the service
ProbeTimeout(s, i) ==
    /\ SettleProbe(s, i, Null)
    /\ abandoned' =
          IF scenario.late
          THEN abandoned \cup {CacheKey(searches[s].probes[i].pt[1],
                                        searches[s].probes[i].pt[2], searches[s].radius)}
          ELSE abandoned
    /\ UNCHANGED lateAnswered

\* Panorama.panoramaExists rejects (transport error)
TransportError(s, i) == SettleProbe(s, i, Null) /\ UNCHANGED raceVars

\* what the settling of apiPromise does after the race was lost: the promise
\* has no handler but the race, which is settled
AfterRaceWrites(cache, key, v) == CacheWrite(cache, key, v)

AfterRace(cache, key, v) == cache

\* the service answers a call whose timer fired first
LateAnswer(key, v) ==
    /\ key \in abandoned
    /\ abandoned' = abandoned \ {key}
    /\ lateAnswered' = lateAnswered \cup {key}
    /\ panoramaCache' = AfterRace(panoramaCache, key, v)
    /\ UNCHANGED <<apiKey, windowPanorama, sdkPromise, seen, drawnPolygon, searches, layer,
                   panoramaLocations, analysisResults, isAnalyzing, error, findLog,
                   started, scenario, firstResult, cacheHits, lastBatch, gridVars,
                   imageVars, rest>>

\* with a polygon on the map the view does not matter
ViewsNow == IF drawnPolygon # NoPolygon THEN Viewports ELSE scenario.views

Next ==
    \/ ToggleDrawing
    \/ \E poly \in scenario.polygons : findPanoramas(poly)
    \/ \E view \in ViewsNow : loadPanoramasInView(view)
    \/ \E hasApi \in BOOLEAN : ScriptLoad(hasApi)
    \/ ScriptError
    \/ \E s \in Slots : \E i \in DOMAIN searches[s].probes, v \in scenario.service :
          ServiceAnswer(s, i, v)
    \/ \E s \in Slots : \E i \in DOMAIN searches[s].probes : ProbeTimeout(s, i)
    \/ \E s \in Slots : \E i \in DOMAIN searches[s].probes : TransportError(s, i)
    \/ \E key \in abandoned, v \in scenario.service : LateAnswer(key, v)

Spec == Init /\ [][Next]_vars

\* timers fire and continuations run; the script loader and the service owe nothing
TimerFires == \E s \in Slots : \E i \in DOMAIN searches[s].probes : ProbeTimeout(s, i)

FairSpec == Spec /\ WF_vars(TimerFires)

(***************************************************************************)
(* checkPanoramaExists on its own: calls with arguments taken from the     *)
(* points below, one inside the valid ranges and one beyond each end of    *)
(* the range of lon and of lat, followed by the script loader and the      *)
(* service as in a search.                                                 *)
(***************************************************************************)
ProbePoints ==
    {<<675, 675>>, <<1800002400, 675>>, <<-1800002400, 675>>, <<675, 900000100>>,
     <<675, -900000100>>}

ProbeScenario ==
    [slots |-> {1}, service |-> {NotExists, Found(PA)}, polygons |-> {}, views |-> {},
     late |-> FALSE]

ProbeInit == SearchInit(BOOLEAN, {ProbeScenario}) /\ GridIdle /\ ImageIdle /\ RestIdle

CallProbe(pt) ==
    /\ CanStart
    /\ started' = started + 1
    /\ Launch(World, "probe", NoPolygon, PolygonRadius, <<pt>>)
    /\ UNCHANGED <<apiKey, windowPanorama, drawnPolygon, scenario, aside>>

ProbeNext ==
    \/ \E pt \in ProbePoints : CallProbe(pt)
    \/ \E hasApi \in BOOLEAN : ScriptLoad(hasApi)
    \/ ScriptError
    \/ \E s \in Slots : \E i \in DOMAIN searches[s].probes, v \in scenario.service :
          ServiceAnswer(s, i, v)
    \/ \E s \in Slots : \E i \in DOMAIN searches[s].probes : ProbeTimeout(s, i)
    \/ \E s \in Slots : \E i \in DOMAIN searches[s].probes : TransportError(s, i)

ProbeSpec == ProbeInit /\ [][ProbeNext]_vars

(***************************************************************************)
(* generateComprehensivePointsInPolygon on its own: one call with          *)
(* arguments taken from the rings, boxes and caps below.  Wide gives a     *)
(* grid of 3 x 2 points, Corner (an L-shaped ring) one of 3 points in its  *)
(* own extent.                                                             *)
(***************************************************************************)
\* largest cap of a call
MaxCap == 3

OnePoint == << <<0, 0>>, <<0, 0>> >>
Wide == << <<0, 0>>, <<4100, 0>>, <<4100, 2750>>, <<0, 2750>>, <<0, 0>> >>
Corner == << <<0, 0>>, <<2800, 0>>, <<2800, 1400>>, <<1400, 1400>>, <<1400, 2750>>,
             <<0, 2750>>, <<0, 0>> >>
Rings == {NoPolygon, OnePoint, Degenerate, Rect, Wide, Corner}

\* the extent of Wide, a box that cuts it, a box of no width, and boxes
\* with east < west and north < south
Boxes ==
    {[w |-> 0, s |-> 0, e |-> 4100, n |-> 2750],
     [w |-> 1000, s |-> -500, e |-> 3000, n |-> 1000],
     [w |-> 700, s |-> 0, e |-> 700, n |-> 2750],
     [w |-> 2800, s |-> 0, e |-> 0, n |-> 1400],
     [w |-> 0, s |-> 1400, e |-> 2800, n |-> 0]}

GridCalls ==
    [polygon : Rings, ext : Boxes, spacingMeters : {SpacingMeters}, maxPoints : 0..MaxCap]

GridInit ==
    /\ SearchInit({FALSE}, {NoScenario})
    /\ gridArgs \in GridCalls
    /\ gridOut = NotRun
    /\ ImageIdle
    /\ RestIdle

Generate ==
    /\ ~gridOut.done
    /\ gridOut' = [done |-> TRUE,
                   grid |-> generateComprehensivePointsInPolygon(
                                gridArgs.polygon, gridArgs.ext, gridArgs.spacingMeters,
                                gridArgs.maxPoints)]
    /\ UNCHANGED <<searchVars, gridArgs, raceVars, imageVars, rest>>

GridNext == Generate

GridSpec == GridInit /\ [][GridNext]_vars

(***************************************************************************)
(* PanoramaApiService (utils/panoramaApi.ts): the image cache of the       *)
(* gallery and the viewer.  An image key stands for the cache key of a     *)
(* request URL.  Time is counted in ticks of 15 minutes, so that an entry  *)
(* is valid for two ticks.  removals counts, for each key, the clearings   *)
(* and evictions; a fetch and the entry it writes carry the count at the   *)
(* start of the fetch.                                                     *)
(***************************************************************************)
\* cacheTimeout = 30 * 60 * 1000 ms, in ticks
CacheTimeoutTicks == 2
\* last tick of the clock and largest number of clearCache calls
MaxTicks == 3
MaxClears == 2

ImageKeys == {"u1", "u2"}

ImageInit ==
    /\ SearchInit({FALSE}, {NoScenario})
    /\ GridIdle
    /\ imageCache = << >>
    /\ fetches = {}
    /\ removals = [k \in ImageKeys |-> 0]
    /\ now = 0
    /\ RestIdle

\* this.isCacheValid(timestamp)
isCacheValid(timestamp) == now - timestamp < CacheTimeoutTicks

\* fetchPanoramaImage up to its first await: a valid entry is returned,
\* otherwise fetch(url) is called
fetchPanoramaImage(key) ==
    /\ ~(key \in DOMAIN imageCache /\ isCacheValid(imageCache[key].timestamp))
    /\ fetches' = fetches \cup {[key |-> key, since |-> removals[key]]}
    /\ UNCHANGED <<searchVars, gridVars, raceVars, rest, imageCache, removals, now>>

\* the response is ok and the blob is read: this.cache[cacheKey] = {...}
FetchDone(f) ==
    /\ f \in fetches
    /\ fetches' = fetches \ {f}
    /\ imageCache' =
          [k \in DOMAIN imageCache \cup {f.key} |->
              IF k = f.key THEN [timestamp |-> now, since |-> f.since] ELSE imageCache[k]]
    /\ UNCHANGED <<searchVars, gridVars, raceVars, rest, removals, now>>

\* fetch rejects or the response is not ok: the catch returns the error
FetchFailed(f) ==
    /\ f \in fetches
    /\ fetches' = fetches \ {f}
    /\ UNCHANGED <<searchVars, gridVars, raceVars, rest, imageCache, removals, now>>

\* clearCache(), called when the gallery or the viewer unmounts
clearCache ==
    /\ \A k \in ImageKeys : removals[k] < MaxClears
    /\ imageCache' = << >>
    /\ removals' = [k \in ImageKeys |-> removals[k] + 1]
    /\ UNCHANGED <<searchVars, gridVars, raceVars, rest, fetches, now>>

\* cleanupCache(): the entries that are no longer valid are deleted
cleanupCache ==
    LET old == {k \in DOMAIN imageCache : ~isCacheValid(imageCache[k].timestamp)}
    IN  /\ old # {}
        /\ imageCache' = [k \in DOMAIN imageCache \ old |-> imageCache[k]]
        /\ removals' = [k \in ImageKeys |-> IF k \in old THEN removals[k] + 1
                                             ELSE removals[k]]
        /\ UNCHANGED <<searchVars, gridVars, raceVars, rest, fetches, now>>

Tick ==
    /\ now < MaxTicks
    /\ now' = now + 1
    /\ UNCHANGED <<searchVars, gridVars, raceVars, rest, imageCache, fetches, removals>>

ImageNext ==
    \/ \E key \in ImageKeys : fetchPanoramaImage(key)
    \/ \E f \in fetches : FetchDone(f)
    \/ \E f \in fetches : FetchFailed(f)
    \/ clearCache
    \/ cleanupCache
    \/ Tick

ImageSpec == ImageInit /\ [][ImageNext]_vars

(***************************************************************************)
(* The background AI analysis of MapView.  Every search that publishes its *)
(* result list calls runBatchAiAnalysis(newResults); the batch walks its   *)
(* own copy of the list and writes each status through a functional update *)
(* of analysisResults that matches the records by id.  A record of         *)
(* aiResults carries the number of the search that published it, and an    *)
(* analysis the coordinates it was computed from and the batch that wrote  *)
(* it, none of which the program stores.                                   *)
(***************************************************************************)
\* largest number of searches that publish a result list
MaxBatches == 2

\* newResults of a search: the ids are the values of foundCount, from 1
ResultLists ==
    { << >>,
      <<[id |-> 1, coordinates |-> PA]>>,
      <<[id |-> 1, coordinates |-> PC], [id |-> 2, coordinates |-> PE]>>,
      <<[id |-> 1, coordinates |-> PA], [id |-> 3, coordinates |-> PD]>> }

AiInit ==
    /\ SearchInit({FALSE}, {NoScenario})
    /\ GridIdle
    /\ ImageIdle
    /\ RestIdle

\* prev => prev.map(r => r.id === id ? {...r, analysisStatus: 'analyzing'} : r)
MarkAnalyzing(results, id) ==
    [i \in DOMAIN results |->
        IF results[i].id = id THEN [results[i] EXCEPT !.analysisStatus = "analyzing"]
        ELSE results[i]]

\* prev => prev.map(r => r.id === id ? {...r, aiAnalysis, analysisStatus} : r)
SetOutcome(results, id, status, analysis) ==
    [i \in DOMAIN results |->
        IF results[i].id = id
        THEN [results[i] EXCEPT !.analysisStatus = status, !.aiAnalysis = analysis]
        ELSE results[i]]

\* the head of the for loop: the next record is marked and its image is awaited,
\* or the loop ends
Iterate(results, batch, pos) ==
    IF pos <= Len(batch.list)
    THEN [results |-> MarkAnalyzing(results, batch.list[pos].id),
          batch |-> [batch EXCEPT !.pos = pos, !.phase = "image"]]
    ELSE [results |-> results, batch |-> [batch EXCEPT !.pos = pos, !.phase = "done"]]

\* setAnalysisResults(newResults); runBatchAiAnalysis(newResults)
PublishResults(list) ==
    LET n == Len(aiBatches) + 1
        fresh == [i \in DOMAIN list |->
                     [search |-> n, id |-> list[i].id, coordinates |-> list[i].coordinates,
                      analysisStatus |-> "pending", aiAnalysis |-> NoAnalysis]]
        go == Iterate(fresh, [list |-> list, pos |-> 1, phase |-> "image",
                              analysed |-> << >>], 1)
    IN  /\ n <= MaxBatches
        /\ aiResults' = go.results
        /\ aiBatches' = Append(aiBatches, go.batch)
        /\ aiEvent' = [kind |-> "published", search |-> n, id |-> 0]
        /\ UNCHANGED <<searchVars, gridVars, raceVars, imageVars, download, http>>

\* setAnalysisResults([]) at the start of loadPanoramasInView
ClearResults ==
    /\ aiResults # << >>
    /\ aiResults' = << >>
    /\ aiEvent' = [kind |-> "cleared", search |-> 0, id |-> 0]
    /\ UNCHANGED <<searchVars, gridVars, raceVars, imageVars, aiBatches, download, http>>

\* fetchPanoramaImage succeeded and the image is read: the analysis is requested
\* with result.coordinates
ImageRead(b) ==
    /\ aiBatches[b].phase = "image"
    /\ aiBatches' = [aiBatches EXCEPT ![b].phase = "post"]
    /\ aiEvent' = [kind |-> "image", search |-> b, id |-> aiBatches[b].list[aiBatches[b].pos].id]
    /\ UNCHANGED <<searchVars, gridVars, raceVars, imageVars, aiResults, download, http>>

\* an await of the try block has settled for good or for bad: the outcome is
\* written to the record with result.id, and the loop goes on
Outcome(b, status, kind) ==
    LET batch == aiBatches[b]
        result == batch.list[batch.pos]
        written == SetOutcome(aiResults, result.id, status,
                              [kind |-> kind, of |-> result.coordinates, batch |-> b])
        go == Iterate(written, [batch EXCEPT !.analysed = Append(@, result.id)],
                      batch.pos + 1)
    IN  /\ aiResults' = go.results
        /\ aiBatches' = [aiBatches EXCEPT ![b] = go.batch]
        /\ aiEvent' = [kind |-> status, search |-> b, id |-> result.id]
        /\ UNCHANGED <<searchVars, gridVars, raceVars, imageVars, download, http>>

\* response.ok: aiAnalysis is the answer of /api/analyze-property
AnalysisCompleted(b) ==
    /\ aiBatches[b].phase = "post"
    /\ Outcome(b, "completed", "result")

\* the image could not be loaded or read, or the response is not ok: the catch
AnalysisFailed(b) ==
    /\ aiBatches[b].phase \in {"image", "post"}
    /\ Outcome(b, "failed", "error")

AiNext ==
    \/ \E list \in ResultLists : PublishResults(list)
    \/ ClearResults
    \/ \E b \in DOMAIN aiBatches : ImageRead(b)
    \/ \E b \in DOMAIN aiBatches : AnalysisCompleted(b)
    \/ \E b \in DOMAIN aiBatches : AnalysisFailed(b)

AiSpec == AiInit /\ [][AiNext]_vars

(***************************************************************************)
(* PanoramaApiService.batchDownloadPanoramas, called on n locations with   *)
(* or without an onProgress callback.  download.actual records, for each   *)
(* location in turn, whether its image was fetched and handed to the       *)
(* browser for download, download.progress the values of current passed to *)
(* onProgress.                                                             *)
(***************************************************************************)
\* largest number of locations of a call
MaxLocations == 4

\* the state at the first await of the loop, or at the return for no location
Entering(d, i) ==
    IF i < d.n THEN [d EXCEPT !.i = i, !.phase = "download"]
    ELSE [d EXCEPT !.i = i, !.phase = "returned"]

DownloadInit ==
    /\ SearchInit({FALSE}, {NoScenario})
    /\ GridIdle
    /\ ImageIdle
    /\ AiIdle
    /\ http = NoRequest
    /\ download \in {Entering([NoDownload EXCEPT !.n = n, !.onProgress = cb], 0) :
                        n \in 0..MaxLocations, cb \in BOOLEAN}

\* downloadPanoramaImage: true after link.click(), false from its catch
\* when the image could not be fetched; it does not throw
downloadPanoramaImage(fetched) ==
    IF fetched THEN [value |-> TRUE, thrown |-> FALSE]
    ELSE [value |-> FALSE, thrown |-> FALSE]

\* await this.downloadPanoramaImage(...) settles: success++ or, in the catch,
\* failed++; then onProgress(i + 1, locations.length) and the delay
Downloaded(fetched) ==
    LET d == download
        r == downloadPanoramaImage(fetched)
    IN  /\ d.phase = "download"
        /\ download' =
              [d EXCEPT !.phase = "delay",
                        !.success = IF r.thrown THEN @ ELSE @ + 1,
                        !.failed = IF r.thrown THEN @ + 1 ELSE @,
                        !.actual = Append(@, fetched),
                        !.progress = IF d.onProgress THEN Append(@, d.i + 1) ELSE @]
        /\ UNCHANGED <<searchVars, gridVars, raceVars, imageVars, aiVars, http>>

\* the 200 ms timer fires: i++, and the next location or the return
DelayOver ==
    /\ download.phase = "delay"
    /\ download' = Entering(download, download.i + 1)
    /\ UNCHANGED <<searchVars, gridVars, raceVars, imageVars, aiVars, http>>

DownloadNext ==
    \/ \E fetched \in BOOLEAN : Downloaded(fetched)
    \/ DelayOver

DownloadSpec == DownloadInit /\ [][DownloadNext]_vars

(***************************************************************************)
(* The serverless handlers api/analyze-property and api/panorama-search.   *)
(* http is one request with its response: the method, which of the two     *)
(* required body fields are present, whether the server's API key is       *)
(* configured, the status sent, whether the Access-Control-Allow-* headers *)
(* were set, and the number of calls made to the upstream API.             *)
(***************************************************************************)
Handlers == {"analyze-property", "panorama-search"}

Methods == {"GET", "HEAD", "POST", "PUT", "DELETE", "OPTIONS"}

\* imageUrl and coordinates, or lat and lon: both present, one missing, none
Bodies == {"both", "first", "second", "neither"}

\* statuses of an upstream response that is not ok
UpstreamErrors == {401, 429}

HandlerInit ==
    /\ SearchInit({FALSE}, {NoScenario})
    /\ GridIdle
    /\ ImageIdle
    /\ AiIdle
    /\ download = NoDownload
    /\ http \in {[NoRequest EXCEPT !.handler = h, !.method = m, !.body = b, !.key = k,
                                   !.phase = "received"] :
                    h \in Handlers, m \in Methods, b \in Bodies, k \in BOOLEAN}

\* res.status(code).json(...) or res.status(code).end()
Respond(q, code) == [q EXCEPT !.phase = "responded", !.status = code]

\* handler(req, res) up to its return or to the await of the upstream fetch
handler(q) ==
    IF q.method # "POST" THEN Respond(q, 405)
    ELSE LET withCors == [q EXCEPT !.cors = TRUE]
         IN  IF q.method = "OPTIONS" THEN Respond(withCors, 200)
             ELSE IF q.body # "both" THEN Respond(withCors, 400)
             ELSE IF ~q.key THEN Respond(withCors, 500)
             ELSE [withCors EXCEPT !.phase = "upstream", !.upstream = @ + 1]

Handle ==
    /\ http.phase = "received"
    /\ http' = handler(http)
    /\ UNCHANGED <<searchVars, gridVars, raceVars, imageVars, aiVars, download>>

\* the upstream response is ok: 200 with the data
UpstreamOk ==
    /\ http.phase = "upstream"
    /\ http' = Respond(http, 200)
    /\ UNCHANGED <<searchVars, gridVars, raceVars, imageVars, aiVars, download>>

\* !response.ok: res.status(response.status)
UpstreamNotOk(code) ==
    /\ http.phase = "upstream"
    /\ http' = Respond(http, code)
    /\ UNCHANGED <<searchVars, gridVars, raceVars, imageVars, aiVars, download>>

\* fetch rejects: the catch answers 500
UpstreamThrows ==
    /\ http.phase = "upstream"
    /\ http' = Respond(http, 500)
    /\ UNCHANGED <<searchVars, gridVars, raceVars, imageVars, aiVars, download>>

HandlerNext ==
    \/ Handle
    \/ UpstreamOk
    \/ \E code \in UpstreamErrors : UpstreamNotOk(code)
    \/ UpstreamThrows

HandlerSpec == HandlerInit /\ [][HandlerNext]_vars

(***************************************************************************)
(* Properties.                                                             *)
(***************************************************************************)
RECURSIVE Flying(_)
Flying(S) ==
    IF S = {} THEN 0
    ELSE LET s == CHOOSE x \in S : TRUE
         IN  Count(searches[s].probes, "flying") + Flying(S \ {s})

\* number of calls of Panorama.panoramaExists awaiting their race
InFlight == Flying(Slots)

\* dLon * dLon + dLat * dLat, as far as it matters for the comparison with
\* the threshold (points 1000 units apart on an axis are not close)
Dist2(p, q) ==
    IF Abs(p[1] - q[1]) >= 1000 \/ Abs(p[2] - q[2]) >= 1000 THEN ProximityThreshold
    ELSE (p[1] - q[1]) * (p[1] - q[1]) + (p[2] - q[2]) * (p[2] - q[2])

\* number of vertices of a ring (the closing vertex repeats the first)
Vertices(polygon) == IF Len(polygon) = 0 THEN 0 ELSE Len(polygon) - 1

\* a value findPanoramas takes for a panorama of the polygon
Candidate(v, polygon) ==
    v.tag = "pano" /\ ~OutOfRange(v) /\ pointInPolygon(<<v.lon, v.lat>>, polygon)

\* C1: in the lists a search publishes (analysisResults, panoramaLocations)
\* no two records have the same dedup key
C1_UniqueDedupKeys ==
    /\ \A i, j \in DOMAIN analysisResults :
          i # j => DedupKey(analysisResults[i].coordinates)
                     # DedupKey(analysisResults[j].coordinates)
    /\ \A i, j \in DOMAIN panoramaLocations :
          i # j => DedupKey(panoramaLocations[i]) # DedupKey(panoramaLocations[j])

\* a search processed two different panoramas with one key and published one of them
C1_Witness ==
    /\ Len(lastBatch.vals) = 2
    /\ lastBatch.vals[1].tag = "pano" /\ lastBatch.vals[2].tag = "pano"
    /\ lastBatch.vals[1] # lastBatch.vals[2]
    /\ DedupKey(<<lastBatch.vals[1].lon, lastBatch.vals[1].lat>>)
         = DedupKey(<<lastBatch.vals[2].lon, lastBatch.vals[2].lat>>)
    /\ Len(analysisResults) = 1

\* C2: every record published by a search over a polygon has returned
\* coordinates inside that polygon (findPanoramas and loadPanoramasInView)
C2_InsidePolygon ==
    lastBatch.polygon # NoPolygon =>
        \A i \in DOMAIN analysisResults :
            pointInPolygon(analysisResults[i].coordinates, lastBatch.polygon)

\* C3: any two records of a published result are at least 1e-8 deg^2 apart
\* (findPanoramas and loadPanoramasInView)
C3_Separated ==
    lastBatch.kind # "none" =>
        \A i, j \in DOMAIN analysisResults :
            i # j => Dist2(analysisResults[i].coordinates,
                           analysisResults[j].coordinates) >= ProximityThreshold

\* C4: without an API key no search ever probes (no SDK load, no call in
\* flight, nothing cached), nothing is published, isAnalyzing is cleared and
\* findPanoramas returns before the grid is generated
C4_NoKeyNoProbes ==
    ~apiKey =>
        /\ \A s \in Slots : searches[s].kind = "idle"
        /\ InFlight = 0
        /\ sdkPromise = "none"
        /\ panoramaCache = << >>
        /\ panoramaLocations = << >>
        /\ analysisResults = << >>
        /\ ~isAnalyzing
        /\ findLog.outcome \in {"none", "noKey"}
        /\ findLog.tested = 0

\* findPanoramas was started without a key
C4_Witness == ~apiKey /\ findLog.outcome = "noKey" /\ started > 0

\* C5: findPanoramas on a polygon with fewer than 3 vertices does not end
\* in the completed state
C5_DegenerateAborts ==
    Vertices(findLog.polygon) < 3 => findLog.outcome # "completed"

\* C6: whichever probes fail, findPanoramas ends completed, never in the
\* error state, and every panorama of the polygon returned by a probe is in
\* the result unless the dedup checks reject it (its key was seen, or an
\* earlier candidate has its key, or it is too close to an accepted record)
C6_FailuresDoNotAbort ==
    /\ ~error
    /\ findLog.outcome # "failed"
    /\ lastBatch.kind = "find" =>
          \A i \in DOMAIN lastBatch.vals :
             LET v == lastBatch.vals[i]
                 p == <<v.lon, v.lat>>
             IN  Candidate(v, lastBatch.polygon) =>
                   \/ \E k \in DOMAIN analysisResults : analysisResults[k].coordinates = p
                   \/ DedupKey(p) \in lastBatch.seenBefore
                   \/ \E j \in 1..(i - 1) :
                         /\ Candidate(lastBatch.vals[j], lastBatch.polygon)
                         /\ DedupKey(<<lastBatch.vals[j].lon, lastBatch.vals[j].lat>>)
                              = DedupKey(p)
                   \/ \E k \in DOMAIN analysisResults :
                         Dist2(analysisResults[k].coordinates, p) < ProximityThreshold

\* findPanoramas completed with a failed probe and published the panorama
\* the other probe returned
C6_Witness ==
    /\ lastBatch.kind = "find"
    /\ findLog.outcome = "completed"
    /\ \E i, j \in DOMAIN lastBatch.vals :
          /\ lastBatch.vals[i] = Null
          /\ Candidate(lastBatch.vals[j], lastBatch.polygon)
          /\ \E k \in DOMAIN analysisResults :
                analysisResults[k].coordinates = <<lastBatch.vals[j].lon, lastBatch.vals[j].lat>>

\* C7: every started search eventually finishes, whatever the service and
\* the script loader do
C7_EverySearchFinishes ==
    \A s \in Slots : (searches[s].kind # "idle") ~> (searches[s].kind = "idle")

\* C8: a probe that finds its key in the cache returns what the first
\* settled probe of that key returned
C8_SameAsFirst ==
    \A h \in cacheHits : h.key \in DOMAIN firstResult /\ h.val = firstResult[h.key]

\* C9: a new polygon search starts with a cache that serves none of its probes
C9_NewSearchMisses ==
    \A h \in cacheHits : h.kind # "find"

\* C10: live calls are paced, no two are issued at the same instant
C10_Paced ==
    [][InFlight' <= InFlight + 1]_vars

\* C11: when a search publishes its result, no newer search has been
\* started: the completion of a search that was overtaken by a newer one
\* is discarded and writes nothing
C11_OlderDiscarded ==
    [][(lastBatch' # lastBatch /\ lastBatch'.kind # "none") => lastBatch'.id = started']_vars

\* the settled values of a batch, as the loops read them
Replay(vals) == [i \in DOMAIN vals |-> [val |-> vals[i]]]

C13_SecondRunSame ==
    [][(/\ Cardinality(scenario.slots) = 1
        /\ findLog.outcome = "completed"
        /\ findLog'.outcome = "completed"
        /\ findLog'.polygon = findLog.polygon)
       => /\ findLog'.unique = findLog.unique
          /\ findLog'.records = findLog.records]_vars

\* a second findPanoramas took both its probes from the cache, one of them
\* the failure entry a timed-out probe left, and published a record
C13_Witness ==
    /\ Cardinality(scenario.slots) = 1
    /\ started >= 2
    /\ lastBatch.kind = "find" /\ lastBatch.id = started
    /\ findLog.outcome = "completed" /\ findLog.unique = 1
    /\ Cardinality(cacheHits) = 2
    /\ \E h \in cacheHits : h.kind = "find" /\ h.val = Null
    /\ \E h \in cacheHits : h.kind = "find" /\ h.val.tag = "pano"

\* C14: for every ring, box and cap maxPoints >= 0 (0 and 1 included) the
\* grid generateComprehensivePointsInPolygon returns has at most maxPoints
\* points
C14_AtMostCap ==
    gridOut.done => Len(gridOut.grid) <= gridArgs.maxPoints

InBox(p, ext) == ext.w <= p[1] /\ p[1] <= ext.e /\ ext.s <= p[2] /\ p[2] <= ext.n

EmptyBox(ext) == ext.e < ext.w \/ ext.n < ext.s

\* C15: every point of a returned grid, complete or cut at the cap, is
\* inside the ring by pointInPolygon and inside the given box, and the grid
\* of a ring with fewer than 3 vertices or of an empty box is empty
C15_GridInside ==
    gridOut.done =>
        /\ \A i \in DOMAIN gridOut.grid :
              /\ pointInPolygon(gridOut.grid[i], gridArgs.polygon)
              /\ InBox(gridOut.grid[i], gridArgs.ext)
        /\ (Vertices(gridArgs.polygon) < 3 \/ EmptyBox(gridArgs.ext)) => gridOut.grid = << >>

\* a grid of two points that was cut at the cap, in a box that cuts the ring
C15_Witness ==
    /\ gridOut.done
    /\ gridArgs.maxPoints = 2
    /\ Len(gridOut.grid) = 2
    /\ getExtent(gridArgs.polygon) # gridArgs.ext
    /\ Len(generateComprehensivePointsInPolygon(
               gridArgs.polygon, gridArgs.ext, gridArgs.spacingMeters,
               gridArgs.maxPoints + 1)) = 3

PointOutOfRange(pt) == OutOfRange([lon |-> pt[1], lat |-> pt[2]])

\* a toFixed(6) string of a longitude / latitude outside the valid range
FixedOutOfRange(f, max) == f[2] > max \div 10

\* C16: a probe whose lon is outside [-180, 180] or whose lat is outside
\* [-90, 90] fails at once: it never waits for the SDK loader or the
\* service, returns null, and the cache gets no entry for it
C16_InvalidFailsAtOnce ==
    /\ \A s \in Slots : \A i \in DOMAIN searches[s].probes :
          PointOutOfRange(searches[s].probes[i].pt) =>
              searches[s].probes[i].st = "done" /\ searches[s].probes[i].val = Null
    /\ \A k \in DOMAIN panoramaCache :
          ~FixedOutOfRange(k[1], MaxLon) /\ ~FixedOutOfRange(k[2], MaxLat)

\* C17: an answer with exists true whose info is missing or whose lon / lat
\* is out of range is treated as no panorama by findPanoramas and by
\* loadPanoramasInView: it is never published, never adds a key to seen and
\* is not counted as found
C17_MalformedIgnored ==
    /\ \A i \in DOMAIN analysisResults : ~PointOutOfRange(analysisResults[i].coordinates)
    /\ \A i \in DOMAIN panoramaLocations : ~PointOutOfRange(panoramaLocations[i])
    /\ \A i \in DOMAIN layer : ~PointOutOfRange(layer[i])
    /\ \A k \in seen : ~FixedOutOfRange(k[1], MaxLat) /\ ~FixedOutOfRange(k[2], MaxLon)
    /\ lastBatch.kind # "none" =>
          Len(analysisResults) <=
              Cardinality({i \in DOMAIN lastBatch.vals :
                              lastBatch.vals[i].tag = "pano" /\ ~OutOfRange(lastBatch.vals[i])})

\* C18: when the 300 ms timer of a probe fired and the service answers
\* later, the answer is discarded: the cache entry of the probe stays the
\* failure entry, the probe of the search stays a miss and no record is
\* added to what is published
C18_LateAnswerDiscarded ==
    [][(abandoned' # abandoned /\ abandoned' \subseteq abandoned)
       => /\ \A k \in abandoned \ abandoned' :
                k \in DOMAIN panoramaCache' /\ panoramaCache'[k] = Null
          /\ panoramaCache' = panoramaCache
          /\ searches' = searches
          /\ seen' = seen
          /\ layer' = layer
          /\ panoramaLocations' = panoramaLocations
          /\ analysisResults' = analysisResults
          /\ lastBatch' = lastBatch]_vars

\* a findPanoramas whose first probe timed out and whose second probe found
\* a panorama has published its one record, and the service has answered
\* the timed-out call since
C18_Witness ==
    /\ lastBatch.kind = "find"
    /\ Len(lastBatch.vals) = 2
    /\ lastBatch.vals[1] = Null
    /\ lastBatch.vals[2].tag = "pano"
    /\ Len(analysisResults) = 1
    /\ \E k \in lateAnswered : k \in DOMAIN panoramaCache /\ panoramaCache[k] = Null

\* C19: after clearCache() or the eviction of an entry, no fetch that was
\* started before adds an entry when it completes: every entry of the
\* image cache comes from a fetch started after the last clearing or
\* eviction of its key
C19_NoEntryFromOldFetch ==
    \A k \in DOMAIN imageCache : imageCache[k].since = removals[k]

\* C20: sequence ids are consumed only on acceptance: the k-th record of a
\* published result has id k, with no gap and no repeat, whatever was
\* rejected by the polygon, key or proximity check in between
C20_IdsConsecutive ==
    \A k \in DOMAIN analysisResults : analysisResults[k].id = k

\* number of settled probes whose answer says that a panorama exists
ExistsCount(vals) ==
    Cardinality({i \in DOMAIN vals : vals[i].tag \in {"pano", "noinfo"}})

\* C21: the counts findPanoramas reports when it completes satisfy
\* accepted <= found <= tested, where tested is the number of grid points
\* probed, found is the number of probes whose answer said that a panorama
\* exists (before the polygon filter and the dedup) and accepted is the
\* length of the published list
C21_CountsOrdered ==
    (lastBatch.kind = "find" /\ findLog.outcome = "completed") =>
        /\ findLog.tested = Len(lastBatch.vals)
        /\ findLog.found = ExistsCount(lastBatch.vals)
        /\ findLog.unique = Len(analysisResults)
        /\ findLog.unique <= findLog.found
        /\ findLog.found <= findLog.tested

\* the grid a search probes
GridOf(srch) ==
    IF srch.kind = "find"
    THEN generateComprehensivePointsInPolygon(srch.polygon, getExtent(srch.polygon),
                                              SpacingMeters, FindMaxPoints)
    ELSE IF srch.polygon # NoPolygon
    THEN generateComprehensivePointsInPolygon(srch.polygon, getExtent(srch.polygon),
                                              SpacingMeters, LoadMaxPoints)
    ELSE ViewportGrid(CHOOSE view \in Viewports : TRUE, ViewGridSize)

\* C22: the phases of a search follow each other: the probes of a running
\* search are those of its complete grid, nothing is filtered, deduplicated
\* or published while a probe of the batch is unsettled (a search ends in
\* the step that settles its last unsettled probes, and a search running
\* alone leaves seen, the layer and the published locations empty until
\* then), and after an abort for the missing key no probe is issued
C22_PhasesInOrder ==
    [][/\ \A s \in Slots :
             /\ searches'[s].kind # "idle" =>
                   /\ [i \in DOMAIN searches'[s].probes |-> searches'[s].probes[i].pt]
                        = GridOf(searches'[s])
                   /\ Cardinality(scenario.slots) = 1 =>
                         seen' = {} /\ layer' = << >> /\ panoramaLocations' = << >>
                   /\ lastBatch'.kind # "none" => lastBatch'.id # searches'[s].id
             /\ (searches[s].kind # "idle" /\ searches'[s].kind = "idle") =>
                   Count(searches[s].probes, "flying") <= 1
       /\ (lastBatch' # lastBatch /\ lastBatch'.kind # "none") =>
             Len(lastBatch'.vals) = Len(GridOf(lastBatch'))
       /\ findLog'.outcome = "noKey" =>
             /\ \A s \in Slots : searches'[s].kind = "idle"
             /\ sdkPromise' = "none"
             /\ panoramaCache' = << >>]_vars

\* findPanoramas has completed over two probes that were both in flight
C22_Witness ==
    /\ lastBatch.kind = "find"
    /\ findLog.outcome = "completed"
    /\ Len(lastBatch.vals) = 2
    /\ cacheHits = {}
    /\ lastBatch.vals[2].tag = "pano"
    /\ Len(analysisResults) = 1
    /\ \A s \in Slots : searches[s].kind = "idle"

\* what a call returns to its caller
Returned(c) ==
    generateComprehensivePointsInPolygon(c.polygon, c.ext, c.spacingMeters, c.maxPoints)

\* the call returned from inside the loops, at the test of the cap
Capped(c, grid) == Len(grid) > 0 /\ Len(grid) >= c.maxPoints

\* C23: when the grid generation stopped at the cap, what the caller
\* receives records it: no call that ran to the end of its loops returns
\* the same as a call that stopped at the cap
C23_TruncationSurfaced ==
    (gridOut.done /\ Capped(gridArgs, gridOut.grid)) =>
        \A c \in GridCalls : ~Capped(c, Returned(c)) => Returned(c) # gridOut.grid


\* the ids a batch has to analyse, in the order of its list
IdsOf(list) == [i \in DOMAIN list |-> list[i].id]

\* C24: the background analysis analyses each record of its list exactly once,
\* and a failure for one record sets that record, and no other, to 'failed':
\* every other record keeps its status and its analysis (the next record of the
\* same list becomes 'analyzing'), the list of records is the same, and the loop
\* goes on to the next record
C24_FailureIsLocal ==
    /\ [](\A b \in DOMAIN aiBatches :
             LET batch == aiBatches[b]
             IN  /\ batch.analysed = SubSeq(IdsOf(batch.list), 1, batch.pos - 1)
                 /\ batch.phase = "done" => batch.analysed = IdsOf(batch.list))
    /\ [][(aiEvent'.kind = "failed" /\ aiBatches' # aiBatches) =>
            LET e == aiEvent'
                batch == aiBatches[e.search]
                next == IF batch.pos < Len(batch.list) THEN batch.list[batch.pos + 1].id
                        ELSE 0
                Mine(r, id) == r.search = e.search /\ r.id = id
            IN  /\ DOMAIN aiResults' = DOMAIN aiResults
                /\ aiBatches'[e.search].pos = batch.pos + 1
                /\ \A i \in DOMAIN aiResults :
                      LET r == aiResults[i]
                      IN  /\ aiResults'[i].id = r.id
                          /\ aiResults'[i].coordinates = r.coordinates
                          /\ Mine(r, e.id) => aiResults'[i].analysisStatus = "failed"
                          /\ ~Mine(r, e.id) =>
                                \/ aiResults'[i] = r
                                \/ /\ Mine(r, next)
                                   /\ aiResults'[i] =
                                         [r EXCEPT !.analysisStatus = "analyzing"]]_vars

Actual(d, fetched) == Cardinality({k \in DOMAIN d.actual : d.actual[k] = fetched})

\* C25: the counts returned by batchDownloadPanoramas add up to the number of
\* locations, success is the number of locations whose image was fetched and
\* downloaded and failed the number of the others, and onProgress was called
\* once per location with current = 1, 2, ..., n in this order
C25_CountsTrue ==
    download.phase = "returned" =>
        /\ download.success + download.failed = download.n
        /\ download.success = Actual(download, TRUE)
        /\ download.failed = Actual(download, FALSE)
        /\ download.onProgress => download.progress = [k \in 1..download.n |-> k]

\* C26: a preflight request (OPTIONS) to either handler is answered with 200
\* and the Access-Control-Allow-* headers without a call to the upstream API,
\* and 405 is sent only for methods other than POST and OPTIONS
C26_PreflightAnswered ==
    http.phase = "responded" =>
        /\ http.method = "OPTIONS" =>
              http.status = 200 /\ http.cors /\ http.upstream = 0
        /\ http.status = 405 => http.method \notin {"POST", "OPTIONS"}

LiveCalls ==
    {<<s, i>> \in Slots \X (1..FindMaxPoints) :
        i \in DOMAIN searches[s].probes /\ searches[s].probes[i].st = "flying"}

KeyOf(c) ==
    CacheKey(searches[c[1]].probes[c[2]].pt[1], searches[c[1]].probes[c[2]].pt[2],
             searches[c[1]].radius)

\* C28: no cache key has two live calls to the existence service, also when
\* two probes for the same key overlap
C28_OneLiveCallPerKey ==
    \A c, d \in LiveCalls : KeyOf(c) = KeyOf(d) => c = d

\* C29: a cache entry that holds a service answer (a panorama or a genuine
\* negative) is never replaced by a failure entry (null)
C29_AnswerNotOverwritten ==
    [][\A k \in DOMAIN panoramaCache :
          panoramaCache[k] # Null => panoramaCache'[k] # Null]_vars
====
